---- MODULE Spec2Model ----
(***************************************************************************)
(* A model of the multi-tenant shop: the session cart (store/cart.py), the *)
(* storefront views (store/views.py) acting on the ORM tables of           *)
(* store/models.py, and the schema layout that settings.py configures for  *)
(* the tenant library.                                                     *)
(*                                                                         *)
(* Python values are kept apart by a tag: a str is [t |-> "str", s |-> a   *)
(* sequence of characters], a Decimal is [t |-> "Decimal", coef, exp]      *)
(* (value coef * 10^exp), an int is [t |-> "int", v].  A dict is the       *)
(* sequence of its items [k, v] in insertion order.                        *)
(***************************************************************************)
EXTENDS Integers, Sequences, FiniteSets, TLC

\* ------------------------------------------------------------------ bounds
MaxQty == 2          \* largest quantity an entry may reach in the model
MaxOrders == 1       \* orders (and addresses made by checkout) created
MaxAddresses == 2    \* Address rows created
MaxReviews == 1      \* Review rows created
MaxRecords == 2      \* rows per tenant in the schema-layout model
MaxSignups == 1      \* User rows created by signup

\* --------------------------------------------------- Python values, strings
Digits == <<"0", "1", "2", "3", "4", "5", "6", "7", "8", "9">>

DigitChar(d) == Digits[d + 1]

IsDigitChar(c) == \E d \in 0..9 : Digits[d + 1] = c

DigitVal(c) == CHOOSE d \in 0..9 : Digits[d + 1] = c

RECURSIVE Pow10(_)
Pow10(k) == IF k = 0 THEN 1 ELSE 10 * Pow10(k - 1)

\* str(n) of a non-negative int: its decimal digits
RECURSIVE IntStr(_)
IntStr(n) == IF n < 10 THEN <<DigitChar(n)>>
             ELSE IntStr(n \div 10) \o <<DigitChar(n % 10)>>

\* int(s) of a string of digits
RECURSIVE IntOf(_)
IntOf(s) == IF Len(s) = 0 THEN 0
            ELSE 10 * IntOf(SubSeq(s, 1, Len(s) - 1)) + DigitVal(s[Len(s)])

\* str.isdigit(): non-empty and every character a digit
IsDigit(s) == Len(s) > 0 /\ \A i \in 1..Len(s) : IsDigitChar(s[i])

PyStr(s) == [t |-> "str", s |-> s]
PyDecimal(c, e) == [t |-> "Decimal", coef |-> c, exp |-> e]
PyInt(n) == [t |-> "int", v |-> n]

\* the k low digits of n, zero padded
RECURSIVE FracStr(_, _)
FracStr(n, k) == IF k = 0 THEN <<>>
                 ELSE FracStr(n \div 10, k - 1) \o <<DigitChar(n % 10)>>

\* str(d) of a non-negative Decimal with exponent <= 0: "12.50", "0.05", "7"
DecimalStr(d) ==
    LET k == 0 - d.exp
        whole == IntStr(d.coef \div Pow10(k))
    IN  IF k = 0 THEN whole ELSE whole \o <<".">> \o FracStr(d.coef % Pow10(k), k)

DotPos(s) == IF \E i \in 1..Len(s) : s[i] = "."
             THEN CHOOSE i \in 1..Len(s) : s[i] = "."
             ELSE 0

\* Decimal(x): a Decimal is returned as it is, a str is parsed: the digits
\* without the point are the coefficient, the digits after it the exponent
DecimalOf(x) ==
    IF x.t = "Decimal" THEN x
    ELSE LET s == x.s
             p == DotPos(s)
         IN  IF p = 0 THEN PyDecimal(IntOf(s), 0)
             ELSE PyDecimal(IntOf(SubSeq(s, 1, p - 1) \o SubSeq(s, p + 1, Len(s))),
                            0 - (Len(s) - p))

\* Decimal * int keeps the exponent
DecimalTimes(d, n) == PyDecimal(d.coef * n, d.exp)

Min(a, b) == IF a < b THEN a ELSE b

\* x + d where x is the int 0 that sum() starts from, or a Decimal
PyAdd(x, d) ==
    IF x.t = "int" THEN PyDecimal(x.v * Pow10(0 - Min(0, d.exp)) + d.coef, Min(0, d.exp))
    ELSE LET e == Min(x.exp, d.exp)
         IN  PyDecimal(x.coef * Pow10(x.exp - e) + d.coef * Pow10(d.exp - e), e)

\* the value of a number in hundredths (all exponents here are in -2..0)
Cents(x) == IF x.t = "int" THEN x.v * 100 ELSE x.coef * Pow10(x.exp + 2)

\* ------------------------------------------------------------- Python dict
EmptyDict == <<>>

Keys(d) == {d[i].k : i \in 1..Len(d)}

Has(d, k) == k \in Keys(d)

Idx(d, k) == CHOOSE i \in 1..Len(d) : d[i].k = k

Get(d, k) == d[Idx(d, k)].v

\* d[k] = v: an existing key keeps its position, a new key goes last
Put(d, k, v) == IF Has(d, k) THEN [d EXCEPT ![Idx(d, k)].v = v]
                ELSE Append(d, [k |-> k, v |-> v])

\* del d[k]
Del(d, k) == LET i == Idx(d, k)
             IN  SubSeq(d, 1, i - 1) \o SubSeq(d, i + 1, Len(d))

\* e[f] = x on a dict with string-literal keys, modelled as a record
SetField(e, f, x) == [g \in DOMAIN e \cup {f} |-> IF g = f THEN x ELSE e[g]]

\* ------------------------------------------------------------------- state
VARIABLES
    rc,         \* the request in progress or just served: request.session and
                \* the Cart built on it (hasCart: the session holds the cart
                \* key; cart: the dict self.cart refers to, which is the
                \* session's while hasCart; modified; user: 0 is anonymous)
    store,      \* the session as last written to the session store
    variants,   \* ProductVariant rows
    products,   \* Product rows
    addresses,  \* Address rows
    orders,     \* Order rows
    items,      \* OrderItem rows
    reviews,    \* Review rows
    users,      \* User rows
    index,      \* the documents in the product_variants index
    inflight,   \* the requests two workers serve at the same time: for each
                \* worker its position and the session object of its request
    req,        \* the last call of a Cart method made directly
    resp,       \* its return value, or the response to the last request
    seq,        \* the next id of each table's id sequence
    rows        \* schema-layout model: the rows of every schema's tables

vars == <<rc, store, variants, products, addresses, orders, items, reviews,
          users, index, inflight, seq, req, resp, rows>>

dbvars == <<variants, products, addresses, orders, items, reviews, users, seq>>

\* --------------------------------------------------------------- the catalog
None == 0

Users == {1, 2}

\* the workers that serve requests at the same time
Workers == {1, 2}

\* the ProductVariant rows of the shop: sale_price is a DecimalField with two
\* decimal places, so a row read from the database has exponent -2
Catalog == {[id |-> 1, product |-> 1, sale_price |-> PyDecimal(1000, -2)],
            [id |-> 2, product |-> 2, sale_price |-> PyDecimal(5, -2)]}

ProductRows == {[id |-> 1, slug |-> "bead", name |-> "Crystal Bead"],
                [id |-> 2, slug |-> "thread", name |-> "Thread"]}

\* the User rows of the shop: two customers and one member of the staff
UserRows == {[id |-> 1, is_active |-> TRUE, is_staff |-> FALSE],
             [id |-> 2, is_active |-> TRUE, is_staff |-> FALSE],
             [id |-> 3, is_active |-> TRUE, is_staff |-> TRUE]}

\* ------------------------------------------------------- the installed apps
SHARED_APPS == {"django_tenants", "store", "django.contrib.admin",
                "django.contrib.auth", "django.contrib.contenttypes",
                "django.contrib.sessions", "django.contrib.messages",
                "django.contrib.staticfiles", "crispy_forms", "crispy_bootstrap5"}

TENANT_APPS == {"django.contrib.admin", "django.contrib.auth",
                "django.contrib.contenttypes", "django.contrib.sessions",
                "django.contrib.messages", "django.contrib.staticfiles"}

\* INSTALLED_APPS = list(set(SHARED_APPS + TENANT_APPS))
INSTALLED_APPS == SHARED_APPS \cup TENANT_APPS

\* ---------------------------------------------------------- the search index
\* store/documents.py registers ProductVariantDocument when it is imported.
\* No module of the project imports it: the search library imports the
\* documents modules of the installed apps when it is itself an installed app.
DocumentsImported ==
    "django_elasticsearch_dsl" \in INSTALLED_APPS /\ "store" \in INSTALLED_APPS

\* the models the registry has a document for
RegisteredModels == IF DocumentsImported THEN {"ProductVariant"} ELSE {}

\* registry.update(instance): every document registered for the instance's
\* model indexes it, replacing the document the index has under its id
RegistryUpdate(ix, model, doc) ==
    IF model \in RegisteredModels
    THEN {x \in ix : x.id # doc.id} \cup {doc}
    ELSE ix

\* registry.delete(instance)
RegistryDelete(ix, model, id) ==
    IF model \in RegisteredModels THEN {x \in ix : x.id # id} ELSE ix

\* Product.name of the row a variant's product refers to
ProductName(product_id) == (CHOOSE p \in products : p.id = product_id).name

\* ProductVariantDocument: the document made of an instance; product_name is
\* read through attr='product.name', sale_price is a field of the model
Prepare(instance) ==
    [id |-> instance.id,
     product_name |-> ProductName(instance.product),
     sale_price |-> instance.sale_price]

\* StoreConfig.ready imports store.signals, which connects the receivers
SignalsConnected == "store" \in INSTALLED_APPS

update_document(ix, instance) == RegistryUpdate(ix, "ProductVariant", Prepare(instance))

delete_document(ix, instance) == RegistryDelete(ix, "ProductVariant", instance.id)

\* post_save of a ProductVariant
PostSave(ix, instance) ==
    IF SignalsConnected THEN update_document(ix, instance) ELSE ix

\* post_delete of each of the ProductVariants deleted by one delete()
RECURSIVE PostDelete(_, _)
PostDelete(ix, instances) ==
    IF instances = {} \/ ~SignalsConnected THEN ix
    ELSE LET instance == CHOOSE x \in instances : TRUE
         IN  PostDelete(delete_document(ix, instance), instances \ {instance})

\* the index after the rows of a catalog were saved one by one
RECURSIVE Indexed(_)
Indexed(rs) ==
    IF rs = {} THEN {}
    ELSE LET instance == CHOOSE x \in rs : TRUE
         IN  PostSave(Indexed(rs \ {instance}), instance)

\* ------------------------------------------------------------ store/cart.py
NewSession == [hasCart |-> FALSE, cart |-> EmptyDict, modified |-> FALSE, user |-> None]

\* a worker that serves no request; loaded is the session as its request read
\* it, session the session object as the request has it now, serial whether
\* the other worker's request was finished when this one read the session
IdleWorker ==
    [pc |-> "idle", variant_id |-> 0, loaded |-> NewSession,
     session |-> NewSession, serial |-> FALSE]

\* Cart.save that leaves session.modified as it is
CartSave_Forgets(c) == c

\* Cart.save
CartSave(c) == [c EXCEPT !.modified = TRUE]

\* Cart.__init__: an absent or empty cart is replaced by a new {} put in the
\* session (SessionBase.__setitem__ marks the session modified)
CartInit(s) ==
    IF s.hasCart /\ Len(s.cart) > 0 THEN s
    ELSE [s EXCEPT !.hasCart = TRUE, !.cart = EmptyDict, !.modified = TRUE]

\* Cart.add with the override branch taken whatever the flag says
CartAdd_AlwaysOverride(c, variant, quantity, override_quantity) ==
    LET variant_id == IntStr(variant.id)
        c1 == IF ~Has(c.cart, variant_id)
              THEN Put(c.cart, variant_id,
                       [quantity |-> 0,
                        price |-> PyStr(DecimalStr(variant.sale_price))])
              ELSE c.cart
    IN  [c EXCEPT !.cart = Put(c1, variant_id,
                               SetField(Get(c1, variant_id), "quantity", quantity)),
                  !.modified = TRUE]

\* Cart.add with the += branch taken whatever the flag says
CartAdd_AlwaysAccumulate(c, variant, quantity, override_quantity) ==
    LET variant_id == IntStr(variant.id)
        c1 == IF ~Has(c.cart, variant_id)
              THEN Put(c.cart, variant_id,
                       [quantity |-> 0,
                        price |-> PyStr(DecimalStr(variant.sale_price))])
              ELSE c.cart
        e == Get(c1, variant_id)
    IN  [c EXCEPT !.cart = Put(c1, variant_id,
                               SetField(e, "quantity", e.quantity + quantity)),
                  !.modified = TRUE]

\* Cart.add
CartAdd(c, variant, quantity, override_quantity) ==
    LET variant_id == IntStr(variant.id)
        c1 == IF ~Has(c.cart, variant_id)
              THEN Put(c.cart, variant_id,
                       [quantity |-> 0,
                        price |-> PyStr(DecimalStr(variant.sale_price))])
              ELSE c.cart
        e == Get(c1, variant_id)
        c2 == Put(c1, variant_id,
                  SetField(e, "quantity",
                           IF override_quantity THEN quantity
                           ELSE e.quantity + quantity))
    IN  CartSave([c EXCEPT !.cart = c2])

\* Cart.remove looking the variant up by variant.id instead of str(variant.id):
\* the int is never a key of the cart
CartRemove_IntKey(c, variant) == c

\* Cart.remove
CartRemove(c, variant) ==
    LET variant_id == IntStr(variant.id)
    IN  IF Has(c.cart, variant_id)
        THEN CartSave([c EXCEPT !.cart = Del(c.cart, variant_id)])
        ELSE c

\* ProductVariant.objects.filter(id__in=variant_ids)
FilterIdIn(vs, variant_ids) == {v \in vs : \E k \in variant_ids : IntOf(k) = v.id}

\* Cart.__iter__ up to its n-th yield.  cart = self.cart.copy() is a shallow
\* copy: its values are the very entry dicts of self.cart, so what the loop
\* writes into an entry is written into the session's entry.  Every entry
\* whose variant exists gets its 'variant' before the first yield; entry i
\* gets its Decimal 'price' and its 'total_price' right before it is yielded.
CartIterCart(c, vs, n) ==
    LET found == FilterIdIn(vs, Keys(c.cart))
        WithVariant(it) ==
            IF \E v \in found : IntStr(v.id) = it.k
            THEN SetField(it.v, "variant", CHOOSE v \in found : IntStr(v.id) = it.k)
            ELSE it.v
        Priced(e) ==
            LET p == DecimalOf(e.price)
            IN  SetField(SetField(e, "price", p),
                         "total_price", DecimalTimes(p, e.quantity))
    IN  [i \in 1..Len(c.cart) |->
            [k |-> c.cart[i].k,
             v |-> IF i <= n THEN Priced(WithVariant(c.cart[i]))
                   ELSE WithVariant(c.cart[i])]]

CartIter(c, vs, n) == IF n = 0 THEN c ELSE [c EXCEPT !.cart = CartIterCart(c, vs, n)]

\* the i-th item Cart.__iter__ yields
CartItem(c, vs, i) == CartIterCart(c, vs, i)[i].v

\* Cart.__len__
RECURSIVE SumQuantity(_, _)
SumQuantity(d, n) == IF n = 0 THEN 0 ELSE SumQuantity(d, n - 1) + d[n].v.quantity

\* Cart.__len__ counting the entries instead of their quantities
CartLen_Entries(c) == Len(c.cart)

CartLen(c) == SumQuantity(c.cart, Len(c.cart))

\* Cart.get_total_price: sum() starts from the int 0
RECURSIVE SumPrice(_, _)
SumPrice(d, n) ==
    IF n = 0 THEN PyInt(0)
    ELSE PyAdd(SumPrice(d, n - 1), DecimalTimes(DecimalOf(d[n].v.price), d[n].v.quantity))

CartGetTotalPrice(c) == SumPrice(c.cart, Len(c.cart))

\* Cart.clear: del self.session[CART_SESSION_ID] (SessionBase.__delitem__
\* marks the session modified; KeyError when the key is absent), then save().
\* self.cart keeps referring to the dict that was removed.
CartClearRaises(c) == ~c.hasCart

CartClear(c) == CartSave([c EXCEPT !.hasCart = FALSE])

\* the cart the session holds
SessionCart(s) == IF s.hasCart THEN s.cart ELSE EmptyDict

\* ------------------------------------------------- the Cart driven directly
\* The Cart is driven as store/tests.py drives it: one request with a fresh
\* session, a Cart built on it, and calls of its methods with variants read
\* from the database.

StoredSession(s) == [hasCart |-> s.hasCart, cart |-> SessionCart(s), user |-> s.user]

\* a call of a Cart method; had records for the reader of a trace whether the
\* variant was in the cart when the call was made
Call(op, vid, q, o) ==
    [op |-> op, vid |-> vid, quantity |-> q, override |-> o,
     had |-> Has(rc.cart, IntStr(vid))]

Returned(x) == [raised |-> FALSE, value |-> x]

Raised == [raised |-> TRUE, value |-> PyInt(0)]

InitDb ==
    /\ variants = Catalog
    /\ products = ProductRows
    /\ addresses = {}
    /\ orders = {}
    /\ items = {}
    /\ reviews = {}
    /\ users = UserRows
    /\ seq = [address |-> 1, order |-> 1, item |-> 1, review |-> 1, user |-> 4]

InitCart ==
    /\ rc = CartInit(NewSession)
    /\ store = StoredSession(NewSession)
    /\ InitDb
    /\ req = Call("init", 0, 0, FALSE)
    /\ resp = Returned(PyInt(0))
    /\ rows = {}
    /\ index = Indexed(Catalog)
    /\ inflight = [w \in Workers |-> IdleWorker]

\* the quantity the entry of variant v would have after add(v, q, o)
QuantityAfter(c, v, q, o) ==
    IF o \/ ~Has(c.cart, IntStr(v.id)) THEN q
    ELSE Get(c.cart, IntStr(v.id)).quantity + q

TAdd(v, q, o) ==
    /\ QuantityAfter(rc, v, q, o) <= MaxQty
    /\ rc' = CartAdd(rc, v, q, o)
    /\ req' = Call("add", v.id, q, o)
    /\ resp' = Returned(PyInt(0))
    /\ UNCHANGED <<store, dbvars, rows, index, inflight>>

TRemove(v) ==
    /\ rc' = CartRemove(rc, v)
    /\ req' = Call("remove", v.id, 0, FALSE)
    /\ resp' = Returned(PyInt(0))
    /\ UNCHANGED <<store, dbvars, rows, index, inflight>>

\* for item in cart: pass
TIter ==
    /\ rc' = CartIter(rc, variants, Len(rc.cart))
    /\ req' = Call("iter", 0, 0, FALSE)
    /\ resp' = Returned(PyInt(Len(rc.cart)))
    /\ UNCHANGED <<store, dbvars, rows, index, inflight>>

TLen ==
    /\ req' = Call("len", 0, 0, FALSE)
    /\ resp' = Returned(PyInt(CartLen(rc)))
    /\ UNCHANGED <<rc, store, dbvars, rows, index, inflight>>

TGetTotalPrice ==
    /\ req' = Call("get_total_price", 0, 0, FALSE)
    /\ resp' = Returned(CartGetTotalPrice(rc))
    /\ UNCHANGED <<rc, store, dbvars, rows, index, inflight>>

TClear ==
    /\ req' = Call("clear", 0, 0, FALSE)
    /\ IF CartClearRaises(rc)
       THEN resp' = Raised /\ UNCHANGED rc
       ELSE resp' = Returned(PyInt(0)) /\ rc' = CartClear(rc)
    /\ UNCHANGED <<store, dbvars, rows, index, inflight>>

NextCart ==
    \/ \E v \in variants, q \in 0..MaxQty, o \in BOOLEAN : TAdd(v, q, o)
    \/ \E v \in variants : TRemove(v)
    \/ TIter
    \/ TLen
    \/ TGetTotalPrice
    \/ TClear

SpecCart == InitCart /\ [][NextCart]_vars

\* ------------------------------------------------------------ the requests
\* One browser session talks to the shop; a request is served from the
\* session as stored, and what it leaves in request.session is written back
\* when the response goes out.  Templates are not part of the model.

MissingId == 9

Methods == {"GET", "POST"}

PyNone == [t |-> "None"]

\* request.POST.get('quantity'): absent, empty, a number, or not a number
QuantityInputs ==
    {PyNone, PyStr(<<>>), PyStr(<<"-", "1">>)} \cup {PyStr(IntStr(n)) : n \in 0..MaxQty}

Titles == {"home", "work"}

Response(status, to) == [status |-> status, to |-> to]

\* SessionMiddleware.process_request: request.session is the stored session
Load(s) == [hasCart |-> s.hasCart, cart |-> s.cart, modified |-> FALSE, user |-> s.user]

\* what the JSON serializer of the session accepts: ints and strings
Serializable(d) ==
    \A i \in 1..Len(d) :
        /\ DOMAIN d[i].v = {"quantity", "price"}
        /\ d[i].v.price.t = "str"

\* SessionMiddleware.process_response: a modified session is saved unless the
\* response is a 500; a session that cannot be serialized makes the save raise
Finish(c, status) ==
    IF c.modified /\ status # 500
    THEN IF Serializable(SessionCart(c))
         THEN [store |-> StoredSession(c), status |-> status]
         ELSE [store |-> store, status |-> 500]
    ELSE [store |-> store, status |-> status]

Respond(c, status, to) ==
    LET f == Finish(c, status)
    IN  /\ rc' = c
        /\ store' = f.store
        /\ resp' = Response(f.status, IF f.status = status THEN to ELSE "")

\* get_object_or_404(ProductVariant, id=variant_id)
VariantExists(id) == \E v \in variants : v.id = id

VariantById(id) == CHOOSE v \in variants : v.id = id

\* store/context_processors.py: every rendered template builds a Cart
tenant_context(c) == CartInit(c)

\* render(request, template, context)
Render(c) == tenant_context(c)

\* a view without @login_required: every request reaches it
IsAuthenticated_Always(c) == TRUE

\* @login_required: request.user.is_authenticated (the session's user is
\* loaded by the authentication backend, which gives no inactive user)
IsAuthenticated(c) ==
    c.user # None /\ \E u \in users : u.id = c.user /\ u.is_active

\* @require_POST
AllowsMethod(method) == method = "POST"

cart_add(method, variant_id) ==
    /\ UNCHANGED req
    /\ UNCHANGED <<dbvars, rows, index, inflight>>
    /\ IF ~AllowsMethod(method) THEN Respond(Load(store), 405, "")
       ELSE LET cart == CartInit(Load(store))
            IN  IF ~VariantExists(variant_id) THEN Respond(cart, 404, "")
                ELSE /\ QuantityAfter(cart, VariantById(variant_id), 1, FALSE) <= MaxQty
                     /\ Respond(CartAdd(cart, VariantById(variant_id), 1, FALSE),
                                302, "store:cart_detail")

cart_detail(method) ==
    /\ UNCHANGED req
    /\ UNCHANGED <<dbvars, rows, index, inflight>>
    /\ Respond(Render(CartInit(Load(store))), 200, "")

\* cart_remove deleting the cart key of variant_id without looking the variant
\* up in the database
cart_remove_NoLookup(method, variant_id) ==
    /\ UNCHANGED req
    /\ UNCHANGED <<dbvars, rows, index, inflight>>
    /\ LET cart == CartInit(Load(store))
           key == IntStr(variant_id)
       IN  Respond(IF Has(cart.cart, key)
                   THEN CartSave([cart EXCEPT !.cart = Del(cart.cart, key)])
                   ELSE cart,
                   302, "store:cart_detail")

cart_remove(method, variant_id) ==
    /\ UNCHANGED req
    /\ UNCHANGED <<dbvars, rows, index, inflight>>
    /\ LET cart == CartInit(Load(store))
       IN  IF ~VariantExists(variant_id) THEN Respond(cart, 404, "")
           ELSE Respond(CartRemove(cart, VariantById(variant_id)),
                        302, "store:cart_detail")

\* if quantity and quantity.isdigit()
QuantityAccepted(quantity) ==
    quantity.t = "str" /\ Len(quantity.s) > 0 /\ IsDigit(quantity.s)

cart_update(method, variant_id, quantity) ==
    /\ UNCHANGED req
    /\ UNCHANGED <<dbvars, rows, index, inflight>>
    /\ IF ~AllowsMethod(method) THEN Respond(Load(store), 405, "")
       ELSE LET cart == CartInit(Load(store))
            IN  IF ~VariantExists(variant_id) THEN Respond(cart, 404, "")
                ELSE IF QuantityAccepted(quantity)
                THEN /\ IntOf(quantity.s) <= MaxQty
                     /\ Respond(CartAdd(cart, VariantById(variant_id),
                                        IntOf(quantity.s), TRUE),
                                302, "store:cart_detail")
                ELSE Respond(cart, 302, "store:cart_detail")

\* a DecimalField(max_digits=10, decimal_places=2) column holds hundredths
DbDecimal(x) == PyDecimal(Cents(x), -2)

\* the position of the first cart entry whose variant is not in the database
\* (it gets no 'variant', so item['variant'] raises KeyError), 0 if none
FirstMissing(d) ==
    IF \E i \in 1..Len(d) : ~VariantExists(IntOf(d[i].k))
    THEN CHOOSE i \in 1..Len(d) :
            /\ ~VariantExists(IntOf(d[i].k))
            /\ \A j \in 1..(i - 1) : VariantExists(IntOf(d[j].k))
    ELSE 0

\* OrderItem.objects.create(...) without the entry's quantity: one unit each
NewOrderItem_OneEach(cart, order, i) ==
    LET item == CartItem(cart, variants, i)
    IN  [id |-> seq.item + i - 1,
         order |-> order.id,
         product_variant |-> item.variant.id,
         price |-> DbDecimal(item.price),
         quantity |-> 1]

\* OrderItem.objects.create(...) for the i-th item the cart yields
NewOrderItem(cart, order, i) ==
    LET item == CartItem(cart, variants, i)
    IN  [id |-> seq.item + i - 1,
         order |-> order.id,
         product_variant |-> item.variant.id,
         price |-> DbDecimal(item.price),
         quantity |-> item.quantity]

\* the rows are written one statement at a time (autocommit; DATABASES sets no
\* ATOMIC_REQUESTS), so what was written before an exception stays written
checkout(method, valid, data) ==
    /\ UNCHANGED req
    /\ UNCHANGED <<variants, products, reviews, users, rows, index, inflight>>
    /\ LET cart == CartInit(Load(store))
       IN  IF method = "POST" /\ valid
           THEN IF ~IsAuthenticated(cart)
                THEN \* address.save() with user_id NULL: IntegrityError
                     /\ Respond(cart, 500, "")
                     /\ UNCHANGED <<addresses, orders, items, seq>>
                ELSE LET address == [id |-> seq.address, user |-> cart.user,
                                     title |-> data]
                         order == [id |-> seq.order,
                                   user |-> cart.user,
                                   shipping_address |-> address.id,
                                   total_amount |-> DbDecimal(CartGetTotalPrice(cart)),
                                   status |-> "pending"]
                         m == FirstMissing(cart.cart)
                         n == IF m = 0 THEN Len(cart.cart) ELSE m - 1
                     IN  /\ seq.address <= MaxAddresses
                         /\ seq.order <= MaxOrders
                         /\ addresses' = addresses \cup {address}
                         /\ orders' = orders \cup {order}
                         /\ items' = items \cup
                                {NewOrderItem(cart, order, i) : i \in 1..n}
                         /\ seq' = [seq EXCEPT !.address = @ + 1, !.order = @ + 1,
                                               !.item = @ + n]
                         /\ IF m = 0
                            THEN Respond(CartClear(CartIter(cart, variants, Len(cart.cart))),
                                         302, "store:home")
                            ELSE Respond(CartIter(cart, variants, m), 500, "")
           ELSE /\ Respond(Render(cart), 200, "")
                /\ UNCHANGED <<addresses, orders, items, seq>>

\* @login_required answers an anonymous request with a redirect to
\* settings.LOGIN_URL before the view runs
RedirectToLogin == Respond(Load(store), 302, "LOGIN_URL")

profile(method) ==
    /\ UNCHANGED req
    /\ UNCHANGED <<dbvars, rows, index, inflight>>
    /\ IF ~IsAuthenticated(Load(store)) THEN RedirectToLogin
       ELSE Respond(Render(Load(store)), 200, "")

\* get_object_or_404(Product, slug=slug)
ProductExists(slug) == \E p \in products : p.slug = slug

ProductBySlug(slug) == CHOOSE p \in products : p.slug = slug

\* the purchase check without the filter on the order's status
HasPurchased_AnyStatus(user, product) ==
    \E o \in orders :
        /\ o.user = user
        /\ \E it \in items :
              /\ it.order = o.id
              /\ \E v \in variants : v.id = it.product_variant /\ v.product = product.id

\* Order.objects.filter(user=..., status__in=['delivered', 'shipped'],
\*                      items__product_variant__product=product).exists()
HasPurchased(user, product) ==
    \E o \in orders :
        /\ o.user = user
        /\ o.status \in {"delivered", "shipped"}
        /\ \E it \in items :
              /\ it.order = o.id
              /\ \E v \in variants : v.id = it.product_variant /\ v.product = product.id

Slugs == {"bead", "nothing"}

Ratings == {5}

submit_review(method, slug, valid, rating) ==
    /\ UNCHANGED req
    /\ UNCHANGED <<variants, products, addresses, orders, items, users, rows, index, inflight>>
    /\ LET s == Load(store)
       IN  IF ~IsAuthenticated(s)
           THEN RedirectToLogin /\ UNCHANGED <<reviews, seq>>
           ELSE IF ~ProductExists(slug)
           THEN Respond(s, 404, "") /\ UNCHANGED <<reviews, seq>>
           ELSE IF ~HasPurchased(s.user, ProductBySlug(slug))
           THEN Respond(s, 302, "store:product_detail") /\ UNCHANGED <<reviews, seq>>
           ELSE IF method = "POST" /\ valid
           THEN /\ seq.review <= MaxReviews
                /\ reviews' = reviews \cup
                       {[id |-> seq.review, product |-> ProductBySlug(slug).id,
                         user |-> s.user, rating |-> rating]}
                /\ seq' = [seq EXCEPT !.review = @ + 1]
                /\ Respond(s, 302, "store:product_detail")
           ELSE Respond(Render(s), 200, "") /\ UNCHANGED <<reviews, seq>>

\* add_address saving the address of any POST, valid or not
add_address_SavesInvalid(method, valid, data) ==
    /\ UNCHANGED req
    /\ UNCHANGED <<variants, products, orders, items, reviews, users, rows, index, inflight>>
    /\ LET s == Load(store)
       IN  IF ~IsAuthenticated(s)
           THEN RedirectToLogin /\ UNCHANGED <<addresses, seq>>
           ELSE IF method = "POST"
           THEN /\ seq.address <= MaxAddresses
                /\ addresses' = addresses \cup
                       {[id |-> seq.address, user |-> s.user, title |-> data]}
                /\ seq' = [seq EXCEPT !.address = @ + 1]
                /\ Respond(s, 302, "store:profile")
           ELSE Respond(Render(s), 200, "") /\ UNCHANGED <<addresses, seq>>

add_address(method, valid, data) ==
    /\ UNCHANGED req
    /\ UNCHANGED <<variants, products, orders, items, reviews, users, rows, index, inflight>>
    /\ LET s == Load(store)
       IN  IF ~IsAuthenticated(s)
           THEN RedirectToLogin /\ UNCHANGED <<addresses, seq>>
           ELSE IF method = "POST" /\ valid
           THEN /\ seq.address <= MaxAddresses
                /\ addresses' = addresses \cup
                       {[id |-> seq.address, user |-> s.user, title |-> data]}
                /\ seq' = [seq EXCEPT !.address = @ + 1]
                /\ Respond(s, 302, "store:profile")
           ELSE Respond(Render(s), 200, "") /\ UNCHANGED <<addresses, seq>>

\* the lookup of the address by its id alone
AddressOf_AnyUser(address_id, user) == {a \in addresses : a.id = address_id}

\* get_object_or_404(Address, id=address_id, user=request.user)
AddressOf(address_id, user) == {a \in addresses : a.id = address_id /\ a.user = user}

edit_address(method, address_id, valid, data) ==
    /\ UNCHANGED req
    /\ UNCHANGED <<variants, products, orders, items, reviews, seq, users, rows, index, inflight>>
    /\ LET s == Load(store)
       IN  IF ~IsAuthenticated(s)
           THEN RedirectToLogin /\ UNCHANGED addresses
           ELSE IF AddressOf(address_id, s.user) = {}
           THEN Respond(s, 404, "") /\ UNCHANGED addresses
           ELSE IF method = "POST" /\ valid
           THEN /\ addresses' = {IF a \in AddressOf(address_id, s.user)
                                 THEN [a EXCEPT !.title = data] ELSE a : a \in addresses}
                /\ Respond(s, 302, "store:profile")
           ELSE Respond(Render(s), 200, "") /\ UNCHANGED addresses

\* address.delete(): Order.shipping_address is on_delete=SET_NULL
delete_address(method, address_id) ==
    /\ UNCHANGED req
    /\ UNCHANGED <<variants, products, items, reviews, seq, users, rows, index, inflight>>
    /\ LET s == Load(store)
       IN  IF ~IsAuthenticated(s)
           THEN RedirectToLogin /\ UNCHANGED <<addresses, orders>>
           ELSE IF AddressOf(address_id, s.user) = {}
           THEN Respond(s, 404, "") /\ UNCHANGED <<addresses, orders>>
           ELSE IF method = "POST"
           THEN /\ addresses' = addresses \ AddressOf(address_id, s.user)
                /\ orders' = {IF o.shipping_address = address_id
                              THEN [o EXCEPT !.shipping_address = None] ELSE o
                              : o \in orders}
                /\ Respond(s, 302, "store:profile")
           ELSE Respond(s, 302, "store:profile") /\ UNCHANGED <<addresses, orders>>

\* auth_views.LoginView with valid credentials of user u: auth.login() keeps
\* the session data unless another user was logged in (then it flushes the
\* session), and stores the user in the session
login(u) ==
    /\ \E x \in users : x.id = u /\ x.is_active
    /\ UNCHANGED req
    /\ UNCHANGED <<dbvars, rows, index, inflight>>
    /\ LET s == Load(store)
           kept == IF s.user # None /\ s.user # u THEN NewSession ELSE s
       IN  Respond([kept EXCEPT !.user = u, !.modified = TRUE], 302, "LOGIN_REDIRECT_URL")

\* signup: a valid form creates the User and logs them in (auth.login() as in
\* login above); anything else renders the form
signup(method, valid) ==
    /\ UNCHANGED req
    /\ UNCHANGED <<variants, products, addresses, orders, items, reviews, rows, index, inflight>>
    /\ LET s == Load(store)
           user == [id |-> seq.user, is_active |-> TRUE, is_staff |-> FALSE]
           kept == IF s.user # None /\ s.user # user.id THEN NewSession ELSE s
       IN  IF method = "POST" /\ valid
           THEN /\ Cardinality(users) < Cardinality(UserRows) + MaxSignups
                /\ users' = users \cup {user}
                /\ seq' = [seq EXCEPT !.user = @ + 1]
                /\ Respond([kept EXCEPT !.user = user.id, !.modified = TRUE],
                           302, "store:home")
           ELSE Respond(Render(s), 200, "") /\ UNCHANGED <<users, seq>>

\* auth_views.LogoutView: auth.logout() flushes the session
logout ==
    /\ UNCHANGED req
    /\ UNCHANGED <<dbvars, rows, index, inflight>>
    /\ Respond([NewSession EXCEPT !.modified = TRUE], 302, "LOGOUT_REDIRECT_URL")

\* the sale prices the staff gives a variant
Prices == {PyDecimal(1000, -2), PyDecimal(5, -2)}

\* the admin site saves a ProductVariant with another sale_price; post_save
\* runs update_document
admin_save_variant(id, price) ==
    /\ VariantExists(id)
    /\ VariantById(id).sale_price # price
    /\ LET instance == [VariantById(id) EXCEPT !.sale_price = DbDecimal(price)]
       IN  /\ variants' = (variants \ {VariantById(id)}) \cup {instance}
           /\ index' = PostSave(index, instance)
    /\ UNCHANGED req
    /\ resp' = Response(302, "admin")
    /\ UNCHANGED <<rc, store, products, addresses, orders, items, reviews, seq, users, rows, inflight>>

\* the admin site deletes a ProductVariant (OrderItem.product_variant is
\* on_delete=PROTECT: a variant that was ordered cannot be deleted);
\* post_delete runs delete_document
admin_delete_variant(id) ==
    /\ VariantExists(id)
    /\ \A it \in items : it.product_variant # id
    /\ variants' = variants \ {VariantById(id)}
    /\ index' = PostDelete(index, {VariantById(id)})
    /\ UNCHANGED req
    /\ resp' = Response(302, "admin")
    /\ UNCHANGED <<rc, store, products, addresses, orders, items, reviews, seq, users, rows, inflight>>

\* the names the staff gives a product
ProductNames == {"Crystal Bead", "Glass Bead", "Thread"}

\* the admin site saves a Product with another name; signals.py connects no
\* receiver to Product, and the unchanged variants of the inline are not saved
admin_save_product(id, name) ==
    /\ \E p \in products : p.id = id /\ p.name # name
    /\ products' = {IF p.id = id THEN [p EXCEPT !.name = name] ELSE p : p \in products}
    /\ UNCHANGED req
    /\ resp' = Response(302, "admin")
    /\ UNCHANGED <<rc, store, variants, addresses, orders, items, reviews, seq, users,
                   rows, index, inflight>>

\* the admin site deletes a Product: its variants (ProductVariant.product)
\* and reviews (Review.product) are on_delete=CASCADE, and post_delete runs
\* for every variant deleted with it; a variant that was ordered protects it
admin_delete_product(id) ==
    LET gone == {v \in variants : v.product = id}
    IN  /\ \E p \in products : p.id = id
        /\ \A it \in items : \A v \in gone : it.product_variant # v.id
        /\ products' = {p \in products : p.id # id}
        /\ variants' = variants \ gone
        /\ reviews' = {r \in reviews : r.product # id}
        /\ index' = PostDelete(index, gone)
        /\ UNCHANGED req
        /\ resp' = Response(302, "admin")
        /\ UNCHANGED <<rc, store, addresses, orders, items, seq, users, rows, inflight>>

\* the admin site changes is_active of a User
admin_set_active(id, flag) ==
    /\ \E u \in users : u.id = id /\ u.is_active # flag
    /\ users' = {IF u.id = id THEN [u EXCEPT !.is_active = flag] ELSE u : u \in users}
    /\ UNCHANGED req
    /\ resp' = Response(302, "admin")
    /\ UNCHANGED <<rc, store, variants, products, addresses, orders, items, reviews,
                   seq, rows, index, inflight>>

STATUS_CHOICES == {"pending", "processing", "shipped", "delivered", "cancelled"}

\* the admin site changes the status of an Order
admin_set_status(id, status) ==
    /\ \E o \in orders : o.id = id /\ o.status # status
    /\ orders' = {IF o.id = id THEN [o EXCEPT !.status = status] ELSE o : o \in orders}
    /\ UNCHANGED req
    /\ resp' = Response(302, "admin")
    /\ UNCHANGED <<rc, store, variants, products, addresses, items, reviews, seq, users, rows, index, inflight>>

\* ------------------------------------------------ store_management/admin.py
\* Order.objects.aggregate(total_revenue=Sum('total_amount')): the sum of the
\* column, None when the table has no row
RECURSIVE SumTotalAmount(_)
SumTotalAmount(os) ==
    IF os = {} THEN PyNone
    ELSE LET o == CHOOSE x \in os : TRUE
             rest == SumTotalAmount(os \ {o})
         IN  IF rest.t = "None" THEN o.total_amount
             ELSE PyAdd(rest, o.total_amount)

\* x or 0: None and a zero Decimal are false
OrZero(x) ==
    IF x.t = "None" \/ (x.t = "Decimal" /\ x.coef = 0) THEN PyInt(0) ELSE x

\* User.objects.count(): the filter left out
TotalUsers_Unfiltered(us) == Cardinality(us)

\* User.objects.filter(is_active=True, is_staff=False).count()
TotalUsers(us) == Cardinality({u \in us : u.is_active /\ ~u.is_staff})

\* admin.site.index as it was: the context of the admin's index page
original_index(s) ==
    [title |-> "Site administration", app_list |-> "app_list", user |-> s.user]

\* the admin site serves its pages to active members of the staff
HasPermission(s) ==
    \E u \in users : u.id = s.user /\ u.is_active /\ u.is_staff

\* custom_index, installed as admin.site.index: the metrics are computed,
\* then the original index is called and its context extended by them
custom_index(method) ==
    /\ UNCHANGED req
    /\ UNCHANGED <<dbvars, rows, index, inflight>>
    /\ LET s == Load(store)
           total_revenue == OrZero(SumTotalAmount(orders))
           total_orders == Cardinality(orders)
           total_users == TotalUsers(users)
           f == Finish(Render(s), 200)
       IN  IF ~HasPermission(s) THEN Respond(s, 302, "admin:login")
           ELSE /\ rc' = Render(s)
                /\ store' = f.store
                /\ resp' = [status |-> f.status, to |-> "",
                            context_data |->
                                [total_revenue |-> total_revenue,
                                 total_orders |-> total_orders,
                                 total_users |-> total_users] @@ original_index(s)]

\* ------------------------------------------------- requests served at once
\* Two workers serve cart_add POSTs of the same browser session.  Each request
\* has its own session object: it is read from the session store when
\* Cart.__init__ first touches request.session, changed in memory by the
\* view, and written back as a whole when the response goes out.  Nothing
\* locks the stored session in between.

AllIdle == \A w \in Workers : inflight[w].pc = "idle"

\* cart_add, line 79: Cart(request) reads the session from the store
request_load(w, variant_id) ==
    /\ inflight[w].pc = "idle"
    /\ VariantExists(variant_id)
    /\ inflight' = [inflight EXCEPT ![w] =
          [pc |-> "loaded", variant_id |-> variant_id,
           loaded |-> Load(store),
           session |-> CartInit(Load(store)),
           serial |-> \E o \in Workers \ {w} : inflight[o].pc = "done"]]
    /\ UNCHANGED <<rc, store, dbvars, req, resp, rows, index>>

\* cart_add, lines 81-83: the variant is looked up and added to the cart of
\* the request's own session object
request_add(w) ==
    /\ inflight[w].pc = "loaded"
    /\ VariantExists(inflight[w].variant_id)
    /\ inflight' = [inflight EXCEPT ![w] =
          [@ EXCEPT !.pc = "added",
                    !.session = CartAdd(@, VariantById(inflight[w].variant_id), 1, FALSE)]]
    /\ UNCHANGED <<rc, store, dbvars, req, resp, rows, index>>

\* the response going out without the session being written
request_save_Skips(w) ==
    /\ inflight[w].pc = "added"
    /\ inflight' = [inflight EXCEPT ![w] = [@ EXCEPT !.pc = "done"]]
    /\ rc' = inflight[w].session
    /\ resp' = Response(302, "store:cart_detail")
    /\ UNCHANGED <<store, dbvars, req, rows, index>>

\* cart_add, line 84, and SessionMiddleware.process_response: the redirect
\* goes out and the modified session is written to the store
request_save(w) ==
    /\ inflight[w].pc = "added"
    /\ inflight' = [inflight EXCEPT ![w] = [@ EXCEPT !.pc = "done"]]
    /\ Respond(inflight[w].session, 302, "store:cart_detail")
    /\ UNCHANGED <<dbvars, req, rows, index>>

\* store/urls.py: the name of each route and the view it dispatches to
urlpatterns ==
    {[name |-> "home", view |-> "HomePageView"],
     [name |-> "product_list", view |-> "ProductListView"],
     [name |-> "product_detail", view |-> "ProductDetailView"],
     [name |-> "cart_detail", view |-> "cart_detail"],
     [name |-> "cart_add", view |-> "cart_add"],
     [name |-> "cart_remove", view |-> "cart_remove"],
     [name |-> "cart_update", view |-> "cart_update"],
     [name |-> "checkout", view |-> "checkout"],
     [name |-> "signup", view |-> "signup"],
     [name |-> "login", view |-> "LoginView"],
     [name |-> "logout", view |-> "LogoutView"],
     [name |-> "profile", view |-> "profile"]}

\* the views a request can be dispatched to
Routed == {r.view : r \in urlpatterns}

\* the views of store/views.py and the two authentication views
Views == {"HomePageView", "ProductListView", "ProductDetailView", "cart_add",
          "cart_detail", "cart_remove", "cart_update", "checkout", "signup",
          "profile", "submit_review", "add_address", "edit_address",
          "delete_address", "LoginView", "LogoutView"}

\* the answer to a request for a view no pattern dispatches to
NotFound(view) == [status |-> 404, to |-> "", view |-> view]

\* a request for a view that no pattern of urlpatterns dispatches to: the URL
\* resolver matches no pattern and the request is answered 404
page_not_found(view) ==
    /\ view \notin Routed
    /\ resp' = NotFound(view)
    /\ UNCHANGED <<rc, store, dbvars, req, rows, index, inflight>>

Init ==
    /\ rc = NewSession
    /\ store = StoredSession(NewSession)
    /\ InitDb
    /\ req = Call("init", 0, 0, FALSE)
    /\ resp = Response(200, "")
    /\ rows = {}
    /\ index = Indexed(Catalog)
    /\ inflight = [w \in Workers |-> IdleWorker]

VariantIds == {v.id : v \in Catalog} \cup {MissingId}

\* the customer who logs in to the shop, and the title of the address given
\* at checkout
Customers == {1}

CheckoutTitles == {"home"}

\* the variant the shop's staff may take out of the catalog
DeletableIds == {2}

\* the shop: the cart views and checkout, customers logging in and out, and
\* the staff deleting a variant
Next ==
    \/ \E m \in Methods, id \in VariantIds : cart_add(m, id)
    \/ \E m \in Methods : cart_detail(m)
    \/ \E m \in Methods, id \in VariantIds : cart_remove(m, id)
    \/ \E m \in Methods, id \in VariantIds, q \in QuantityInputs : cart_update(m, id, q)
    \/ \E m \in Methods, valid \in BOOLEAN, t \in CheckoutTitles : checkout(m, valid, t)
    \/ \E u \in Customers : login(u)
    \/ logout
    \/ \E id \in DeletableIds : admin_delete_variant(id)

Spec == Init /\ [][Next]_vars

\* ------------------------------------------------------------- the account
\* The account pages, served after customer 1 has bought one unit of variant 1
\* (the state the shop is in after login(1), cart_add("POST", 1) and a valid
\* checkout): profile, addresses and reviews for two customers, and the staff
\* changing the order's status.

InitAccount ==
    /\ rc = [hasCart |-> FALSE,
             cart |-> CartIter(CartAdd(CartInit(NewSession),
                                       CHOOSE v \in Catalog : v.id = 1, 1, FALSE),
                               Catalog, 1).cart,
             modified |-> TRUE, user |-> 1]
    /\ store = [hasCart |-> FALSE, cart |-> EmptyDict, user |-> 1]
    /\ variants = Catalog
    /\ products = ProductRows
    /\ addresses = {[id |-> 1, user |-> 1, title |-> "home"]}
    /\ orders = {[id |-> 1, user |-> 1, shipping_address |-> 1,
                  total_amount |-> PyDecimal(1000, -2), status |-> "pending"]}
    /\ items = {[id |-> 1, order |-> 1, product_variant |-> 1,
                 price |-> PyDecimal(1000, -2), quantity |-> 1]}
    /\ reviews = {}
    /\ users = UserRows
    /\ seq = [address |-> 2, order |-> 2, item |-> 2, review |-> 1, user |-> 4]
    /\ req = Call("init", 0, 0, FALSE)
    /\ resp = Response(302, "store:home")
    /\ rows = {}
    /\ index = Indexed(Catalog)
    /\ inflight = [w \in Workers |-> IdleWorker]

AddressIds == 1..MaxAddresses \cup {MissingId}

NextAccount ==
    \/ \E m \in Methods : profile(m)
    \/ \E m \in Methods, sl \in Slugs, valid \in BOOLEAN, r \in Ratings :
            submit_review(m, sl, valid, r)
    \/ \E m \in Methods, valid \in BOOLEAN, t \in Titles : add_address(m, valid, t)
    \/ \E m \in Methods, id \in AddressIds, valid \in BOOLEAN, t \in Titles :
            edit_address(m, id, valid, t)
    \/ \E m \in Methods, id \in AddressIds : delete_address(m, id)
    \/ \E u \in Users : login(u)
    \/ logout
    \/ \E id \in 1..MaxOrders, st \in STATUS_CHOICES : admin_set_status(id, st)

SpecAccount == InitAccount /\ [][NextAccount]_vars

\* -------------------------------------------------------------- the lookups
\* The views that look an object up by what the URL names, served from the
\* same state: the cart views for variant 2, which the staff may delete, and
\* for an id no variant has; submit_review; edit_address and delete_address
\* for the address of the order and for ids no address has.

LookupVariantIds == DeletableIds \cup {MissingId}

NextLookup ==
    \/ \E m \in Methods, id \in LookupVariantIds : cart_add(m, id)
    \/ \E m \in Methods, id \in LookupVariantIds : cart_remove(m, id)
    \/ \E m \in Methods, id \in LookupVariantIds, q \in QuantityInputs :
            cart_update(m, id, q)
    \/ \E m \in Methods, sl \in Slugs, valid \in BOOLEAN, r \in Ratings :
            submit_review(m, sl, valid, r)
    \/ \E m \in Methods, id \in AddressIds, valid \in BOOLEAN, t \in Titles :
            edit_address(m, id, valid, t)
    \/ \E m \in Methods, id \in AddressIds : delete_address(m, id)
    \/ \E u \in Users : login(u)
    \/ logout
    \/ \E id \in DeletableIds : admin_delete_variant(id)
    \/ \E id \in 1..MaxOrders, st \in STATUS_CHOICES : admin_set_status(id, st)

SpecLookup == InitAccount /\ [][NextLookup]_vars

\* ---------------------------------------------------------------- the forms
\* The views that validate a form, served to one browser session from the
\* fresh shop: a customer signs up or logs in, puts variant 1 in the cart,
\* checks out, keeps addresses and reviews what was shipped.

FormVariantIds == {1}

\* the address the customer edits: the first one made, or none
FormAddressIds == {1, MissingId}

\* the status the staff gives an order
FormStatuses == {"shipped"}

NextForms ==
    \/ \E m \in Methods, id \in FormVariantIds : cart_add(m, id)
    \/ \E m \in Methods, valid \in BOOLEAN, t \in CheckoutTitles : checkout(m, valid, t)
    \/ \E m \in Methods, valid \in BOOLEAN : signup(m, valid)
    \/ \E m \in Methods, sl \in Slugs, valid \in BOOLEAN, r \in Ratings :
            submit_review(m, sl, valid, r)
    \/ \E m \in Methods, valid \in BOOLEAN, t \in CheckoutTitles : add_address(m, valid, t)
    \/ \E m \in Methods, id \in FormAddressIds, valid \in BOOLEAN, t \in Titles :
            edit_address(m, id, valid, t)
    \/ \E u \in Customers : login(u)
    \/ logout
    \/ \E id \in 1..MaxOrders, st \in FormStatuses : admin_set_status(id, st)

SpecForms == Init /\ [][NextForms]_vars

\* ------------------------------------------------------------ the dashboard
\* Customers sign up, fill a cart and check out; the staff logs in, opens the
\* admin's index page and activates or deactivates a customer.

Staff == {3}

\* the customer the staff deactivates
DeactivatedIds == {2}

NextDashboard ==
    \/ \E m \in Methods, id \in FormVariantIds : cart_add(m, id)
    \/ \E m \in Methods, valid \in BOOLEAN, t \in CheckoutTitles : checkout(m, valid, t)
    \/ \E m \in Methods, valid \in BOOLEAN : signup(m, valid)
    \/ \E u \in Customers \cup Staff : login(u)
    \/ \E id \in DeactivatedIds, flag \in BOOLEAN : admin_set_active(id, flag)
    \/ \E m \in Methods : custom_index(m)

SpecDashboard == Init /\ [][NextDashboard]_vars

\* --------------------------------------------------------------- the search
\* The staff logs in and out and keeps the products and their variants: it
\* renames a product, changes a variant's sale_price, deletes a variant or a
\* product with its variants.

SearchIds == {v.id : v \in Catalog}

NextSearch ==
    \/ \E u \in Staff : login(u)
    \/ logout
    \/ \E id \in SearchIds, name \in ProductNames : admin_save_product(id, name)
    \/ \E id \in SearchIds, price \in Prices : admin_save_variant(id, price)
    \/ \E id \in SearchIds : admin_delete_variant(id)
    \/ \E id \in SearchIds : admin_delete_product(id)

SpecSearch == Init /\ [][NextSearch]_vars

\* -------------------------------------------------------------- the catalog
\* The staff keeps the catalog (changes a variant's sale_price, deletes a
\* variant, deletes a product with its variants) while a customer fills a
\* cart and checks out; requests arrive through the patterns of store/urls.py.

CatalogIds == {v.id : v \in Catalog}

NextCatalog ==
    \/ \E m \in Methods, id \in CatalogIds : cart_add(m, id)
    \/ \E m \in Methods, valid \in BOOLEAN, t \in CheckoutTitles : checkout(m, valid, t)
    \/ \E u \in Customers : login(u)
    \/ \E id \in CatalogIds, price \in Prices : admin_save_variant(id, price)
    \/ \E id \in CatalogIds : admin_delete_variant(id)
    \/ \E id \in CatalogIds : admin_delete_product(id)
    \/ \E view \in Views : page_not_found(view)

SpecCatalog == Init /\ [][NextCatalog]_vars

\* ------------------------------------------------------- the two workers
\* One request at a time fills the cart; then two cart_add POSTs of the
\* session are served by two workers whose steps interleave.

NextWorkers ==
    \/ AllIdle /\ \E m \in Methods, id \in CatalogIds : cart_add(m, id)
    \/ AllIdle /\ \E m \in Methods, id \in CatalogIds : cart_remove(m, id)
    \/ \E w \in Workers, id \in CatalogIds : request_load(w, id)
    \/ \E w \in Workers : request_add(w)
    \/ \E w \in Workers : request_save(w)

SpecWorkers == Init /\ [][NextWorkers]_vars

\* ------------------------------------------------------------ the schemas
\* settings.py configures the tenant library: the tables of an app exist in
\* the public schema when the app is in SHARED_APPS and in every tenant's
\* schema when it is in TENANT_APPS; while a request of a tenant is served the
\* search path is the tenant's schema followed by the public schema.

Tenants == {"A", "B"}

PublicSchema == "public"

\* the models of store/models.py that hold a shop's records
StoreModels == {"User", "Address", "Category", "Product", "ProductVariant",
                "Order", "Review"}

\* TenantSyncRouter: where the tables of an app are created
HasTables(schema, app) ==
    IF schema = PublicSchema THEN app \in SHARED_APPS ELSE app \in TENANT_APPS

\* TenantMainMiddleware: the hostname selects the tenant, whose schema goes
\* first on the search path
SearchPath(tenant) == <<tenant, PublicSchema>>

\* the schema whose table an unqualified table name of the app refers to
TableSchema(tenant, app) ==
    LET path == SearchPath(tenant)
    IN  IF \E i \in 1..Len(path) : HasTables(path[i], app)
        THEN path[CHOOSE i \in 1..Len(path) :
                     /\ HasTables(path[i], app)
                     /\ \A j \in 1..(i - 1) : ~HasTables(path[j], app)]
        ELSE "none"

\* Model.objects.all() while serving a request of the tenant
Visible(tenant, model) ==
    {r \in rows : r.model = model /\ r.schema = TableSchema(tenant, "store")}

InitTenant ==
    /\ rc = NewSession
    /\ store = StoredSession(NewSession)
    /\ InitDb
    /\ req = Call("init", 0, 0, FALSE)
    /\ resp = [tenant |-> "A", seen |-> {}]
    /\ rows = {}
    /\ index = Indexed(Catalog)
    /\ inflight = [w \in Workers |-> IdleWorker]

\* Model.objects.create(...) while serving a request on the tenant's hostname;
\* by records the tenant for the reader of a trace
TenantCreate(tenant, model) ==
    /\ Cardinality(rows) < MaxRecords
    /\ TableSchema(tenant, "store") # "none"
    /\ rows' = rows \cup
          {[model |-> model,
            id |-> 1 + Cardinality({r \in rows : r.model = model
                                       /\ r.schema = TableSchema(tenant, "store")}),
            schema |-> TableSchema(tenant, "store"),
            by |-> tenant]}
    /\ resp' = [tenant |-> tenant, seen |-> {}]
    /\ UNCHANGED <<rc, store, dbvars, req, index, inflight>>

TenantQuery(tenant, model) ==
    /\ resp' = [tenant |-> tenant, seen |-> Visible(tenant, model)]
    /\ UNCHANGED <<rc, store, dbvars, req, rows, index, inflight>>

NextTenant ==
    \/ \E t \in Tenants, m \in StoreModels : TenantCreate(t, m)
    \/ \E t \in Tenants, m \in StoreModels : TenantQuery(t, m)

SpecTenant == InitTenant /\ [][NextTenant]_vars

\* ================================================================== claims
\* what the claims sum, computed over the set of keys
EntryCents(e) == Cents(DecimalOf(e.price)) * e.quantity

RECURSIVE QuantityOver(_, _)
QuantityOver(d, ks) ==
    IF ks = {} THEN 0
    ELSE LET k == CHOOSE x \in ks : TRUE
         IN  Get(d, k).quantity + QuantityOver(d, ks \ {k})

RECURSIVE CentsOver(_, _)
CentsOver(d, ks) ==
    IF ks = {} THEN 0
    ELSE LET k == CHOOSE x \in ks : TRUE
         IN  EntryCents(Get(d, k)) + CentsOver(d, ks \ {k})

\* the quantity of variant key k in cart d, 0 when it has no entry
QuantityOf(d, k) == IF Has(d, k) THEN Get(d, k).quantity ELSE 0

\* C1: Cart.add(variant, quantity=q) without override_quantity leaves an entry
\* under the variant's id whose quantity is q plus the quantity it had before
\* (0 when the variant was not in the cart), and leaves every other entry as
\* it was.
C1_AddAccumulates ==
    [][(req'.op = "add" /\ ~req'.override) =>
         LET k == IntStr(req'.vid)
         IN  /\ Has(rc'.cart, k)
             /\ Get(rc'.cart, k).quantity = req'.quantity + QuantityOf(rc.cart, k)
             /\ Keys(rc'.cart) = Keys(rc.cart) \cup {k}
             /\ \A j \in Keys(rc.cart) \ {k} : Get(rc'.cart, j) = Get(rc.cart, j)]_vars

\* an add of 1 onto an entry that held 1, next to another entry
C1_Witness ==
    /\ req.op = "add" /\ ~req.override /\ req.had /\ req.quantity = 1
    /\ Len(rc.cart) = 2
    /\ Get(rc.cart, IntStr(req.vid)).quantity = 2

\* C2: Cart.add(variant, quantity=q, override_quantity=True) leaves the
\* variant's entry with quantity exactly q whatever it held before, and the
\* same override applied a second time leaves the cart as the first left it.
C2_OverrideReplaces ==
    [][(req'.op = "add" /\ req'.override) =>
         LET k == IntStr(req'.vid)
             v == CHOOSE x \in variants : x.id = req'.vid
         IN  /\ Has(rc'.cart, k)
             /\ Get(rc'.cart, k).quantity = req'.quantity
             /\ CartAdd(rc', v, req'.quantity, TRUE) = rc']_vars

\* an override to 1 of an entry that held 2 when the cart was last iterated
C2_Witness ==
    /\ req.op = "add" /\ req.override /\ req.had /\ req.quantity = 1
    /\ LET e == Get(rc.cart, IntStr(req.vid))
       IN  /\ e.quantity = 1
           /\ "total_price" \in DOMAIN e
           /\ e.total_price = DecimalTimes(DecimalOf(e.price), 2)

\* C3: after Cart.remove(variant) the variant's id is no key of the cart and
\* every other entry is as it was; when the variant was not in the cart the
\* cart is as it was.
C3_RemoveFrame ==
    [][req'.op = "remove" =>
         LET k == IntStr(req'.vid)
         IN  /\ ~Has(rc'.cart, k)
             /\ Keys(rc'.cart) = Keys(rc.cart) \ {k}
             /\ \A j \in Keys(rc.cart) \ {k} : Get(rc'.cart, j) = Get(rc.cart, j)
             /\ (~Has(rc.cart, k) => rc'.cart = rc.cart)]_vars

\* a variant that was in the cart has been removed and the other one is left
C3_Witness ==
    /\ req.op = "remove" /\ req.had
    /\ Len(rc.cart) = 1
    /\ ~Has(rc.cart, IntStr(req.vid))

\* C4: len(cart) is the sum of the entries' quantities and get_total_price()
\* the sum of stored price times quantity, in every state add, remove and the
\* other calls lead to; both are 0 for a cart without entries.
C4_LenAndTotal ==
    /\ CartLen(rc) = QuantityOver(rc.cart, Keys(rc.cart))
    /\ Cents(CartGetTotalPrice(rc)) = CentsOver(rc.cart, Keys(rc.cart))
    /\ (req.op = "len" =>
            resp.value = PyInt(QuantityOver(rc.cart, Keys(rc.cart))))
    /\ (req.op = "get_total_price" =>
            Cents(resp.value) = CentsOver(rc.cart, Keys(rc.cart)))
    /\ (Len(rc.cart) = 0 => CartLen(rc) = 0 /\ CartGetTotalPrice(rc) = PyInt(0))

\* get_total_price() returned 20.10 for two entries of quantities 2 and 2
C4_Witness ==
    /\ req.op = "get_total_price"
    /\ Len(rc.cart) = 2
    /\ CartLen(rc) = 4
    /\ resp.value = PyDecimal(2010, -2)

\* C5: every entry of the cart the session holds has exactly a 'quantity' and
\* a 'price' field, the price a string; no call of the cart, iteration
\* included, changes that.
C5_EntryShape ==
    \A i \in 1..Len(SessionCart(rc)) :
        LET e == SessionCart(rc)[i].v
        IN  /\ DOMAIN e = {"quantity", "price"}
            /\ e.price.t = "str"
            /\ e.quantity \in Nat

\* the entries of a cart: key, quantity and price (in hundredths), in order
EntriesOf(d) ==
    [i \in 1..Len(d) |->
        [k |-> d[i].k, quantity |-> d[i].v.quantity,
         price |-> Cents(DecimalOf(d[i].v.price))]]

\* C6: a request that changes the entries of the session's cart leaves the
\* session marked modified, and the Cart built for the next request of the
\* session holds exactly the entries the request left.
C6_SessionPersisted ==
    [][/\ (EntriesOf(SessionCart(rc')) # EntriesOf(store.cart) => rc'.modified)
       /\ EntriesOf(CartInit(Load(store')).cart) = EntriesOf(SessionCart(rc'))]_vars

\* the stored cart was built by more than one request and the last one changed it
C6_Witness ==
    /\ resp = Response(302, "store:cart_detail")
    /\ Len(store.cart) = 2
    /\ store.cart[1].v.quantity = 2
    /\ store.cart = SessionCart(rc)

\* C7: a record created while a request on tenant A's hostname is served is
\* never among the records a query made on tenant B's hostname sees.
C7_TenantIsolation == \A r \in resp.seen : r.by = resp.tenant

\* the rows of an order's items
ItemsOf(o, its) == {it \in its : it.order = o.id}

RECURSIVE ItemsCents(_)
ItemsCents(its) ==
    IF its = {} THEN 0
    ELSE LET it == CHOOSE x \in its : TRUE
         IN  Cents(it.price) * it.quantity + ItemsCents(its \ {it})

\* C8: a checkout that succeeds (it redirects to store:home) creates exactly
\* one Order and, for each entry of the cart the request found, exactly one
\* OrderItem with the entry's variant, quantity and stored price, and no other
\* OrderItem; the order's total_amount is the sum of price times quantity
\* over these OrderItems.
C8_CheckoutSnapshot ==
    [][resp' = Response(302, "store:home") =>
         /\ Cardinality(orders' \ orders) = 1
         /\ orders \subseteq orders'
         /\ items \subseteq items'
         /\ LET o == CHOOSE x \in orders' \ orders : TRUE
                new == items' \ items
            IN  /\ \A it \in new : it.order = o.id
                /\ Cardinality(new) = Len(store.cart)
                /\ \A i \in 1..Len(store.cart) :
                      Cardinality({it \in new :
                          /\ it.product_variant = IntOf(store.cart[i].k)
                          /\ it.quantity = store.cart[i].v.quantity
                          /\ Cents(it.price) = Cents(DecimalOf(store.cart[i].v.price))}) = 1
                /\ Cents(o.total_amount) = ItemsCents(new)]_vars

\* a checkout has made an order of two items worth 20.05
C8_Witness ==
    /\ resp = Response(302, "store:home")
    /\ \E o \in orders :
          /\ Cardinality(ItemsOf(o, items)) = 2
          /\ o.total_amount = PyDecimal(2005, -2)

\* the request leaves the database and the entries of the stored cart alone
NoSideEffects ==
    /\ UNCHANGED dbvars
    /\ EntriesOf(store'.cart) = EntriesOf(store.cart)

NoVariant(id) == \A v \in variants : v.id # id

NoProduct(slug) == \A p \in products : p.slug # slug

NoAddress(id) == \A a \in addresses : a.id # id

\* C9 as stated: every cart_add, cart_remove or cart_update request naming a
\* variant_id no ProductVariant has, every submit_review request naming a slug
\* no Product has, and every edit_address or delete_address request naming an
\* address_id no Address has is answered 404 and changes nothing.
C9_Missing404_AnyRequest ==
    [][(\/ \E m \in Methods, id \in LookupVariantIds, q \in QuantityInputs :
              /\ NoVariant(id)
              /\ cart_add(m, id) \/ cart_remove(m, id) \/ cart_update(m, id, q)
        \/ \E m \in Methods, sl \in Slugs, valid \in BOOLEAN, r \in Ratings :
              NoProduct(sl) /\ submit_review(m, sl, valid, r)
        \/ \E m \in Methods, id \in AddressIds, valid \in BOOLEAN, t \in Titles :
              /\ NoAddress(id)
              /\ edit_address(m, id, valid, t) \/ delete_address(m, id))
       => (resp'.status = 404 /\ NoSideEffects)]_vars

\* C9: a request that names a missing object and gets past the view's
\* decorator (a POST for cart_add and cart_update, any cart_remove, a
\* logged-in user for submit_review, edit_address and delete_address) is
\* answered 404; one the decorator rejects is answered 405 (wrong method) or
\* redirected to the login URL (anonymous); both change nothing.
C9_Missing404 ==
    [][/\ (\/ \E m \in Methods, id \in LookupVariantIds, q \in QuantityInputs :
                 /\ NoVariant(id)
                 /\ \/ cart_add("POST", id)
                    \/ cart_remove(m, id)
                    \/ cart_update("POST", id, q)
           \/ /\ store.user # None
              /\ \/ \E m \in Methods, sl \in Slugs, valid \in BOOLEAN, r \in Ratings :
                       NoProduct(sl) /\ submit_review(m, sl, valid, r)
                 \/ \E m \in Methods, id \in AddressIds, valid \in BOOLEAN, t \in Titles :
                       /\ NoAddress(id)
                       /\ edit_address(m, id, valid, t) \/ delete_address(m, id))
          => (resp'.status = 404 /\ NoSideEffects)
       /\ (\E id \in LookupVariantIds, q \in QuantityInputs :
              NoVariant(id) /\ (cart_add("GET", id) \/ cart_update("GET", id, q)))
          => (resp'.status = 405 /\ NoSideEffects)
       /\ (/\ store.user = None
           /\ \/ \E m \in Methods, sl \in Slugs, valid \in BOOLEAN, r \in Ratings :
                    NoProduct(sl) /\ submit_review(m, sl, valid, r)
              \/ \E m \in Methods, id \in AddressIds, valid \in BOOLEAN, t \in Titles :
                    /\ NoAddress(id)
                    /\ edit_address(m, id, valid, t) \/ delete_address(m, id))
          => (resp' = Response(302, "LOGIN_URL") /\ NoSideEffects)]_vars

\* a logged-in customer with a cart entry for the deleted variant 2 and an
\* address has been answered 404
C9_Witness ==
    /\ resp.status = 404
    /\ store.user # None
    /\ Has(store.cart, IntStr(2))
    /\ NoVariant(2)
    /\ addresses # {}

\* C10: a request of an anonymous user to profile, submit_review, add_address,
\* edit_address or delete_address is answered with a redirect to the login
\* URL and creates, changes or deletes no Review and no Address.
C10_LoginRequired ==
    [][(/\ store.user = None
        /\ \/ \E m \in Methods : profile(m)
           \/ \E m \in Methods, sl \in Slugs, valid \in BOOLEAN, r \in Ratings :
                 submit_review(m, sl, valid, r)
           \/ \E m \in Methods, valid \in BOOLEAN, t \in Titles : add_address(m, valid, t)
           \/ \E m \in Methods, id \in AddressIds, valid \in BOOLEAN, t \in Titles :
                 edit_address(m, id, valid, t)
           \/ \E m \in Methods, id \in AddressIds : delete_address(m, id))
       => /\ resp' = Response(302, "LOGIN_URL")
          /\ reviews' = reviews
          /\ addresses' = addresses]_vars

\* an anonymous visitor has been sent to the login URL while the shop holds
\* an address and a review
C10_Witness ==
    /\ resp = Response(302, "LOGIN_URL")
    /\ store.user = None
    /\ addresses # {}
    /\ reviews # {}

\* C11: a POST whose form is invalid creates and changes no record: an
\* invalid checkout POST is answered with the rendered form, creates no
\* Address, Order or OrderItem and leaves the cart's entries as they were; an
\* invalid signup POST is answered with the rendered form and creates no
\* User; an invalid add_address, edit_address or submit_review POST changes
\* no record.
C11_InvalidFormChangesNothing ==
    [][/\ (\E t \in CheckoutTitles : checkout("POST", FALSE, t))
          => (resp'.status = 200 /\ NoSideEffects)
       /\ signup("POST", FALSE)
          => (resp'.status = 200 /\ users' = users /\ NoSideEffects)
       /\ (\/ \E t \in Titles : add_address("POST", FALSE, t)
           \/ \E id \in FormAddressIds, t \in Titles : edit_address("POST", id, FALSE, t)
           \/ \E sl \in Slugs, r \in Ratings : submit_review("POST", sl, FALSE, r))
          => NoSideEffects]_vars

\* a form was rendered for a logged-in customer who has a cart entry, an
\* address, and a shipped order to review
C11_Witness ==
    /\ resp = Response(200, "")
    /\ store.user # None
    /\ Len(store.cart) > 0
    /\ addresses # {}
    /\ \E o \in orders : o.status = "shipped" /\ o.user = store.user

\* C12: after every save or delete of a ProductVariant (a delete cascaded
\* from deleting a Product included), once its hook has run, the index holds
\* a document for exactly the ProductVariants in the database.
C12_IndexMirrorsVariants ==
    [][variants' # variants => {doc.id : doc \in index'} = {v.id : v \in variants'}]_vars

\* C15: every OrderItem a successful checkout creates carries the sale_price
\* its ProductVariant has at the moment of the checkout, whatever cart
\* additions and price changes came before.
C15_PriceAtCheckout ==
    [][resp' = Response(302, "store:home") =>
         \A it \in items' \ items :
            \E v \in variants :
               /\ v.id = it.product_variant
               /\ Cents(it.price) = Cents(v.sale_price)]_vars

\* C13: each of home, product list, product detail, cart detail, cart add,
\* cart remove, cart update, checkout, signup, login, logout, profile,
\* add_address, edit_address, delete_address and submit_review has a route of
\* the store app that dispatches to its view: no request for one of them is
\* left without a pattern to dispatch it.
C13_EveryInterfaceRouted ==
    \A view \in {"HomePageView", "ProductListView", "ProductDetailView",
                 "cart_detail", "cart_add", "cart_remove", "cart_update",
                 "checkout", "signup", "LoginView", "LogoutView", "profile",
                 "add_address", "edit_address", "delete_address",
                 "submit_review"} :
        resp # NotFound(view)

RECURSIVE OrdersCents(_)
OrdersCents(os) ==
    IF os = {} THEN 0
    ELSE LET o == CHOOSE x \in os : TRUE
         IN  Cents(o.total_amount) + OrdersCents(os \ {o})

C16_OrderHasItems == \A o \in orders : ItemsOf(o, items) # {}

\* C17: a valid checkout POST of a visitor who is not logged in succeeds: it
\* is answered with the redirect to store:home, saves an Address without a
\* user, creates an Order with user None, and leaves the stored cart empty.
C17_GuestCheckout ==
    [][(store.user = None /\ \E t \in CheckoutTitles : checkout("POST", TRUE, t))
       => /\ resp' = Response(302, "store:home")
          /\ \E a \in addresses' \ addresses : a.user = None
          /\ \E o \in orders' \ orders : o.user = None
          /\ Len(store'.cart) = 0]_vars

\* the user has an order that was shipped or delivered and holds an item of
\* a variant of the product
Purchased(u, product_id) ==
    \E o \in orders, it \in items, v \in variants :
        /\ o.user = u
        /\ o.status = "shipped" \/ o.status = "delivered"
        /\ it.order = o.id
        /\ it.product_variant = v.id
        /\ v.product = product_id

\* C18: a Review is created only for a (user, product) such that, when the
\* request is served, the user has an Order with status shipped or delivered
\* holding an OrderItem of a variant of the product; a submit_review request
\* of a logged-in user for a product they have no such order for creates no
\* Review and is redirected to the product detail page.
C18_ReviewGatedOnPurchase ==
    [][/\ \A rv \in reviews' \ reviews :
             rv.user = store.user /\ Purchased(rv.user, rv.product)
       /\ \A m \in Methods, sl \in Slugs, valid \in BOOLEAN, r \in Ratings :
             (/\ submit_review(m, sl, valid, r)
              /\ store.user # None
              /\ \E p \in products : p.slug = sl /\ ~Purchased(store.user, p.id))
             => (reviews' = reviews /\ resp' = Response(302, "store:product_detail"))]_vars

\* customer 1 reviewed the product once its order was shipped or delivered;
\* the order is cancelled now and the last request was sent back to the
\* product page
C18_Witness ==
    /\ \E rv \in reviews : rv.user = 1
    /\ \E o \in orders : o.user = 1 /\ o.status = "cancelled"
    /\ resp = Response(302, "store:product_detail")
    /\ store.user = 1

\* C19: a request changes or deletes an Address only when the address
\* belongs to the requesting user; an edit_address or delete_address request
\* of a logged-in user naming an address of another user is answered 404 and
\* leaves the addresses as they were; a delete_address request that is no
\* POST deletes nothing.
C19_OwnAddressOnly ==
    [][/\ \A a \in addresses \ addresses' : a.user = store.user
       /\ \A m \in Methods, id \in AddressIds, valid \in BOOLEAN, t \in Titles :
             (/\ edit_address(m, id, valid, t) \/ delete_address(m, id)
              /\ store.user # None
              /\ \E a \in addresses : a.id = id /\ a.user # store.user)
             => (resp'.status = 404 /\ addresses' = addresses)
       /\ (\E id \in AddressIds : delete_address("GET", id))
             => addresses' = addresses]_vars

\* customer 2, who has an address of their own, was answered 404 while
\* customer 1's address is in the database
C19_Witness ==
    /\ resp.status = 404
    /\ store.user = 2
    /\ \E a \in addresses : a.user = 1
    /\ \E a \in addresses : a.user = 2

\* C20: after a checkout POST that created an Order the session holds no
\* cart entries: the Cart built for the next request of the session has
\* length 0 and total price 0.
C20_CheckoutClearsCart ==
    [][((\E valid \in BOOLEAN, t \in CheckoutTitles : checkout("POST", valid, t))
        /\ orders' # orders)
       => LET next == CartInit(Load(store'))
          IN  /\ Len(store'.cart) = 0
              /\ CartLen(next) = 0
              /\ Cents(CartGetTotalPrice(next)) = 0]_vars

\* C21: a checkout POST whose form validated and that then fails (it is
\* answered 500) leaves no Address, Order or OrderItem it wrote in the
\* database and leaves the cart as it was.
C21_CheckoutAllOrNothing ==
    [][((\E t \in CheckoutTitles : checkout("POST", TRUE, t)) /\ resp'.status = 500)
       => /\ addresses' = addresses
          /\ orders' = orders
          /\ items' = items
          /\ EntriesOf(store'.cart) = EntriesOf(store.cart)]_vars

\* C23: every entry of the session cart has a quantity of at least 1, and so
\* has every OrderItem.
C23_QuantityAtLeastOne ==
    /\ \A i \in 1..Len(store.cart) : store.cart[i].v.quantity >= 1
    /\ \A it \in items : it.quantity >= 1

\* C24: once a Product or ProductVariant was saved and the save hooks have
\* run, the documents mirror the data: every variant in the database has its
\* document in the index, and the product_name of every document in the
\* index is the current name of its variant's Product (a renamed Product
\* shows in the documents of its variants).
C24_DocumentsMirrorNames ==
    [][(products' # products \/ variants' # variants) =>
         /\ \A v \in variants' : \E doc \in index' : doc.id = v.id
         /\ \A doc \in index' : \A v \in variants', p \in products' :
               (v.id = doc.id /\ p.id = v.product) => doc.product_name = p.name]_vars

\* both workers have served a cart_add for the same variant
BothAdded(id) ==
    \A w \in Workers : inflight[w].pc = "done" /\ inflight[w].variant_id = id

\* the variant's quantity in the stored cart when the first of the two
\* requests read the session (the two requests only add, so it is the
\* smaller of the quantities they read)
InitialQuantity(id) ==
    Min(QuantityOf(inflight[1].loaded.cart, IntStr(id)),
        QuantityOf(inflight[2].loaded.cart, IntStr(id)))

\* C22 as stated: when two cart_add requests of a session for the same
\* variant were served by two workers at the same time, the variant's
\* quantity in the stored cart is its initial quantity plus 2.
C22_NoLostUpdate ==
    \A id \in CatalogIds :
        BothAdded(id) =>
            QuantityOf(store.cart, IntStr(id)) = InitialQuantity(id) + 2

\* C22: when two cart_add requests of a session for the same variant were
\* served by two workers, the variant's quantity in the stored cart is its
\* initial quantity plus 2 if one request read the session after the other
\* had written it back, and its initial quantity plus 1 (one addition is
\* lost) if both read the session before either wrote it back.
C22_AtMostOneLost ==
    \A id \in CatalogIds :
        BothAdded(id) =>
            QuantityOf(store.cart, IntStr(id)) =
                InitialQuantity(id) + (IF \E w \in Workers : inflight[w].serial THEN 2 ELSE 1)

\* both requests read a cart that held one unit of variant 1 and the stored
\* cart holds two: one addition was lost
C22_Witness ==
    /\ BothAdded(1)
    /\ \A w \in Workers : ~inflight[w].serial
    /\ InitialQuantity(1) = 1
    /\ QuantityOf(store.cart, IntStr(1)) = 2

====
